---- MODULE Spec2Model ----
(***************************************************************************)
(* Model of the VacancyMail job scraper (src/web_scraper.py).              *)
(*                                                                         *)
(* A Python str is the sequence of the code points of its characters; the  *)
(* Python operations used by the scraper (strip, lower, startswith, in,    *)
(* lstrip, slicing, re.search, strptime, strftime) are operators on such   *)
(* sequences, and Str("...") is the str a string of this module spells.    *)
(* A fetched page is the record BeautifulSoup's queries would answer from: *)
(* the anchors of a listing page, the elements and text of a detail page.  *)
(***************************************************************************)
EXTENDS Integers, Sequences, FiniteSets, TLC

\* ------------------------------------------------------------------------
\* Python str operations
\* ------------------------------------------------------------------------

Min(a, b) == IF a < b THEN a ELSE b

\* the characters U+0020 to U+007E a string of this module can hold (all but
\* U+0060), in order
AsciiChars ==
  " !\"#$%&'()*+,-./0123456789:;<=>?@ABCDEFGHIJKLMNOPQRSTUVWXYZ[\\]^_abcdefghijklmnopqrstuvwxyz{|}~"

\* ord(c) for a character c of a string of this module
Ord(c) ==
  CASE c = "\t" -> 9
    [] c = "\n" -> 10
    [] c = "\f" -> 12
    [] c = "\r" -> 13
    [] OTHER -> LET k == CHOOSE n \in 1..Len(AsciiChars) : SubSeq(AsciiChars, n, n) = c
                IN IF k <= 64 THEN 31 + k ELSE 32 + k

\* the Python str a string of this module spells
Str(literal) ==
  SubSeq([k \in 1..Len(literal) |-> Ord(SubSeq(literal, k, k))], 1, Len(literal))

\* the code points of the characters \d matches and int() reads as 0, as of
\* Unicode 14.0: the nine code points after each are the digits 1 to 9
DigitZeros ==
  {
   48, 1632, 1776, 1984, 2406, 2534, 2662, 2790, 2918, 3046, 3174, 3302, 3430, 3558, 3664,
   3792, 3872, 4160, 4240, 6112, 6160, 6470, 6608, 6784, 6800, 6992, 7088, 7232, 7248,
   42528, 43216, 43264, 43472, 43504, 43600, 44016, 65296, 66720, 68912, 69734, 69872,
   69942, 70096, 70384, 70736, 70864, 71248, 71360, 71472, 71904, 72016, 72784, 73040,
   73120, 92768, 92864, 93008, 120782, 120792, 120802, 120812, 120822, 123200, 123632,
   125264, 130032 }

\* \d
DigitSet == UNION {z..(z + 9) : z \in DigitZeros}

IsDigit(c) == c \in DigitSet

\* int(c) for a digit c
DigitValue(c) ==
  IF 48 <= c /\ c <= 57 THEN c - 48
  ELSE c - (CHOOSE z \in DigitZeros : z <= c /\ c <= z + 9)

\* [A-Za-z]
AlphaSet == (65..90) \cup (97..122)

IsAlpha(c) == c \in AlphaSet

\* \s, and the characters str.strip() removes (those str.isspace() holds of):
\* U+0009 to U+000D, U+001C to U+0020, U+0085, U+00A0, U+1680, U+2000 to
\* U+200A, U+2028, U+2029, U+202F, U+205F and U+3000
SpaceSet ==
  (9..13) \cup (28..32) \cup {133, 160, 5760} \cup (8192..8202)
    \cup {8232, 8233, 8239, 8287, 12288}

IsSpace(c) == c \in SpaceSet

\* The characters that str.lower() replaces by one other character, as of
\* Unicode 14.0: <<first, last, step, distance>> stands for the code points
\* first, first + step, ... last, and lower-casing adds distance to each.
LowerTable ==
  {
     <<65, 90, 1, 32>>, <<192, 214, 1, 32>>, <<216, 222, 1, 32>>, <<256, 302, 2, 1>>,
     <<306, 310, 2, 1>>, <<313, 327, 2, 1>>, <<330, 374, 2, 1>>, <<376, 376, 1, -121>>,
     <<377, 381, 2, 1>>, <<385, 385, 1, 210>>, <<386, 388, 2, 1>>, <<390, 390, 1, 206>>,
     <<391, 391, 1, 1>>, <<393, 394, 1, 205>>, <<395, 395, 1, 1>>, <<398, 398, 1, 79>>,
     <<399, 399, 1, 202>>, <<400, 400, 1, 203>>, <<401, 401, 1, 1>>, <<403, 403, 1, 205>>,
     <<404, 404, 1, 207>>, <<406, 406, 1, 211>>, <<407, 407, 1, 209>>, <<408, 408, 1, 1>>,
     <<412, 412, 1, 211>>, <<413, 413, 1, 213>>, <<415, 415, 1, 214>>, <<416, 420, 2, 1>>,
     <<422, 422, 1, 218>>, <<423, 423, 1, 1>>, <<425, 425, 1, 218>>, <<428, 428, 1, 1>>,
     <<430, 430, 1, 218>>, <<431, 431, 1, 1>>, <<433, 434, 1, 217>>, <<435, 437, 2, 1>>,
     <<439, 439, 1, 219>>, <<440, 440, 1, 1>>, <<444, 444, 1, 1>>, <<452, 452, 1, 2>>,
     <<453, 453, 1, 1>>, <<455, 455, 1, 2>>, <<456, 456, 1, 1>>, <<458, 458, 1, 2>>,
     <<459, 475, 2, 1>>, <<478, 494, 2, 1>>, <<497, 497, 1, 2>>, <<498, 500, 2, 1>>,
     <<502, 502, 1, -97>>, <<503, 503, 1, -56>>, <<504, 542, 2, 1>>, <<544, 544, 1, -130>>,
     <<546, 562, 2, 1>>, <<570, 570, 1, 10795>>, <<571, 571, 1, 1>>, <<573, 573, 1, -163>>,
     <<574, 574, 1, 10792>>, <<577, 577, 1, 1>>, <<579, 579, 1, -195>>,
     <<580, 580, 1, 69>>, <<581, 581, 1, 71>>, <<582, 590, 2, 1>>, <<880, 882, 2, 1>>,
     <<886, 886, 1, 1>>, <<895, 895, 1, 116>>, <<902, 902, 1, 38>>, <<904, 906, 1, 37>>,
     <<908, 908, 1, 64>>, <<910, 911, 1, 63>>, <<913, 929, 1, 32>>, <<931, 939, 1, 32>>,
     <<975, 975, 1, 8>>, <<984, 1006, 2, 1>>, <<1012, 1012, 1, -60>>, <<1015, 1015, 1, 1>>,
     <<1017, 1017, 1, -7>>, <<1018, 1018, 1, 1>>, <<1021, 1023, 1, -130>>,
     <<1024, 1039, 1, 80>>, <<1040, 1071, 1, 32>>, <<1120, 1152, 2, 1>>,
     <<1162, 1214, 2, 1>>, <<1216, 1216, 1, 15>>, <<1217, 1229, 2, 1>>,
     <<1232, 1326, 2, 1>>, <<1329, 1366, 1, 48>>, <<4256, 4293, 1, 7264>>,
     <<4295, 4295, 1, 7264>>, <<4301, 4301, 1, 7264>>, <<5024, 5103, 1, 38864>>,
     <<5104, 5109, 1, 8>>, <<7312, 7354, 1, -3008>>, <<7357, 7359, 1, -3008>>,
     <<7680, 7828, 2, 1>>, <<7838, 7838, 1, -7615>>, <<7840, 7934, 2, 1>>,
     <<7944, 7951, 1, -8>>, <<7960, 7965, 1, -8>>, <<7976, 7983, 1, -8>>,
     <<7992, 7999, 1, -8>>, <<8008, 8013, 1, -8>>, <<8025, 8031, 2, -8>>,
     <<8040, 8047, 1, -8>>, <<8072, 8079, 1, -8>>, <<8088, 8095, 1, -8>>,
     <<8104, 8111, 1, -8>>, <<8120, 8121, 1, -8>>, <<8122, 8123, 1, -74>>,
     <<8124, 8124, 1, -9>>, <<8136, 8139, 1, -86>>, <<8140, 8140, 1, -9>>,
     <<8152, 8153, 1, -8>>, <<8154, 8155, 1, -100>>, <<8168, 8169, 1, -8>>,
     <<8170, 8171, 1, -112>>, <<8172, 8172, 1, -7>>, <<8184, 8185, 1, -128>>,
     <<8186, 8187, 1, -126>>, <<8188, 8188, 1, -9>>, <<8486, 8486, 1, -7517>>,
     <<8490, 8490, 1, -8383>>, <<8491, 8491, 1, -8262>>, <<8498, 8498, 1, 28>>,
     <<8544, 8559, 1, 16>>, <<8579, 8579, 1, 1>>, <<9398, 9423, 1, 26>>,
     <<11264, 11311, 1, 48>>, <<11360, 11360, 1, 1>>, <<11362, 11362, 1, -10743>>,
     <<11363, 11363, 1, -3814>>, <<11364, 11364, 1, -10727>>, <<11367, 11371, 2, 1>>,
     <<11373, 11373, 1, -10780>>, <<11374, 11374, 1, -10749>>, <<11375, 11375, 1, -10783>>,
     <<11376, 11376, 1, -10782>>, <<11378, 11378, 1, 1>>, <<11381, 11381, 1, 1>>,
     <<11390, 11391, 1, -10815>>, <<11392, 11490, 2, 1>>, <<11499, 11501, 2, 1>>,
     <<11506, 11506, 1, 1>>, <<42560, 42604, 2, 1>>, <<42624, 42650, 2, 1>>,
     <<42786, 42798, 2, 1>>, <<42802, 42862, 2, 1>>, <<42873, 42875, 2, 1>>,
     <<42877, 42877, 1, -35332>>, <<42878, 42886, 2, 1>>, <<42891, 42891, 1, 1>>,
     <<42893, 42893, 1, -42280>>, <<42896, 42898, 2, 1>>, <<42902, 42920, 2, 1>>,
     <<42922, 42922, 1, -42308>>, <<42923, 42923, 1, -42319>>, <<42924, 42924, 1, -42315>>,
     <<42925, 42925, 1, -42305>>, <<42926, 42926, 1, -42308>>, <<42928, 42928, 1, -42258>>,
     <<42929, 42929, 1, -42282>>, <<42930, 42930, 1, -42261>>, <<42931, 42931, 1, 928>>,
     <<42932, 42946, 2, 1>>, <<42948, 42948, 1, -48>>, <<42949, 42949, 1, -42307>>,
     <<42950, 42950, 1, -35384>>, <<42951, 42953, 2, 1>>, <<42960, 42960, 1, 1>>,
     <<42966, 42968, 2, 1>>, <<42997, 42997, 1, 1>>, <<65313, 65338, 1, 32>>,
     <<66560, 66599, 1, 40>>, <<66736, 66771, 1, 40>>, <<66928, 66938, 1, 39>>,
     <<66940, 66954, 1, 39>>, <<66956, 66962, 1, 39>>, <<66964, 66965, 1, 39>>,
     <<68736, 68786, 1, 64>>, <<71840, 71871, 1, 32>>, <<93760, 93791, 1, 32>>,
     <<125184, 125217, 1, 34>> }

\* the lower case of a character, where it is one character
\* c moved by the distance of its row of the table, c itself where it has none
Shifted(c, distances) == IF distances = {} THEN c ELSE c + CHOOSE d \in distances : TRUE

LowerChar(c) ==
  IF c < 128 THEN (IF 65 <= c /\ c <= 90 THEN c + 32 ELSE c)
  ELSE Shifted(c, {row[4] : row \in {r \in LowerTable :
                                       r[1] <= c /\ c <= r[2] /\ (c - r[1]) % r[3] = 0}})

\* The characters str.lower() looks for a cased letter through (the
\* case-ignorable ones), as ranges <<first, last>> of code points.
CaseIgnorable ==
  {
     <<39, 39>>, <<46, 46>>, <<58, 58>>, <<94, 94>>, <<96, 96>>, <<168, 168>>,
     <<173, 173>>, <<175, 175>>, <<180, 180>>, <<183, 184>>, <<688, 879>>, <<884, 885>>,
     <<890, 890>>, <<900, 901>>, <<903, 903>>, <<1155, 1161>>, <<1369, 1369>>,
     <<1375, 1375>>, <<1425, 1469>>, <<1471, 1471>>, <<1473, 1474>>, <<1476, 1477>>,
     <<1479, 1479>>, <<1524, 1524>>, <<1536, 1541>>, <<1552, 1562>>, <<1564, 1564>>,
     <<1600, 1600>>, <<1611, 1631>>, <<1648, 1648>>, <<1750, 1757>>, <<1759, 1768>>,
     <<1770, 1773>>, <<1807, 1807>>, <<1809, 1809>>, <<1840, 1866>>, <<1958, 1968>>,
     <<2027, 2037>>, <<2042, 2042>>, <<2045, 2045>>, <<2070, 2093>>, <<2137, 2139>>,
     <<2184, 2184>>, <<2192, 2193>>, <<2200, 2207>>, <<2249, 2306>>, <<2362, 2362>>,
     <<2364, 2364>>, <<2369, 2376>>, <<2381, 2381>>, <<2385, 2391>>, <<2402, 2403>>,
     <<2417, 2417>>, <<2433, 2433>>, <<2492, 2492>>, <<2497, 2500>>, <<2509, 2509>>,
     <<2530, 2531>>, <<2558, 2558>>, <<2561, 2562>>, <<2620, 2620>>, <<2625, 2626>>,
     <<2631, 2632>>, <<2635, 2637>>, <<2641, 2641>>, <<2672, 2673>>, <<2677, 2677>>,
     <<2689, 2690>>, <<2748, 2748>>, <<2753, 2757>>, <<2759, 2760>>, <<2765, 2765>>,
     <<2786, 2787>>, <<2810, 2815>>, <<2817, 2817>>, <<2876, 2876>>, <<2879, 2879>>,
     <<2881, 2884>>, <<2893, 2893>>, <<2901, 2902>>, <<2914, 2915>>, <<2946, 2946>>,
     <<3008, 3008>>, <<3021, 3021>>, <<3072, 3072>>, <<3076, 3076>>, <<3132, 3132>>,
     <<3134, 3136>>, <<3142, 3144>>, <<3146, 3149>>, <<3157, 3158>>, <<3170, 3171>>,
     <<3201, 3201>>, <<3260, 3260>>, <<3263, 3263>>, <<3270, 3270>>, <<3276, 3277>>,
     <<3298, 3299>>, <<3328, 3329>>, <<3387, 3388>>, <<3393, 3396>>, <<3405, 3405>>,
     <<3426, 3427>>, <<3457, 3457>>, <<3530, 3530>>, <<3538, 3540>>, <<3542, 3542>>,
     <<3633, 3633>>, <<3636, 3642>>, <<3654, 3662>>, <<3761, 3761>>, <<3764, 3772>>,
     <<3782, 3782>>, <<3784, 3789>>, <<3864, 3865>>, <<3893, 3893>>, <<3895, 3895>>,
     <<3897, 3897>>, <<3953, 3966>>, <<3968, 3972>>, <<3974, 3975>>, <<3981, 3991>>,
     <<3993, 4028>>, <<4038, 4038>>, <<4141, 4144>>, <<4146, 4151>>, <<4153, 4154>>,
     <<4157, 4158>>, <<4184, 4185>>, <<4190, 4192>>, <<4209, 4212>>, <<4226, 4226>>,
     <<4229, 4230>>, <<4237, 4237>>, <<4253, 4253>>, <<4348, 4348>>, <<4957, 4959>>,
     <<5906, 5908>>, <<5938, 5939>>, <<5970, 5971>>, <<6002, 6003>>, <<6068, 6069>>,
     <<6071, 6077>>, <<6086, 6086>>, <<6089, 6099>>, <<6103, 6103>>, <<6109, 6109>>,
     <<6155, 6159>>, <<6211, 6211>>, <<6277, 6278>>, <<6313, 6313>>, <<6432, 6434>>,
     <<6439, 6440>>, <<6450, 6450>>, <<6457, 6459>>, <<6679, 6680>>, <<6683, 6683>>,
     <<6742, 6742>>, <<6744, 6750>>, <<6752, 6752>>, <<6754, 6754>>, <<6757, 6764>>,
     <<6771, 6780>>, <<6783, 6783>>, <<6823, 6823>>, <<6832, 6862>>, <<6912, 6915>>,
     <<6964, 6964>>, <<6966, 6970>>, <<6972, 6972>>, <<6978, 6978>>, <<7019, 7027>>,
     <<7040, 7041>>, <<7074, 7077>>, <<7080, 7081>>, <<7083, 7085>>, <<7142, 7142>>,
     <<7144, 7145>>, <<7149, 7149>>, <<7151, 7153>>, <<7212, 7219>>, <<7222, 7223>>,
     <<7288, 7293>>, <<7376, 7378>>, <<7380, 7392>>, <<7394, 7400>>, <<7405, 7405>>,
     <<7412, 7412>>, <<7416, 7417>>, <<7468, 7530>>, <<7544, 7544>>, <<7579, 7679>>,
     <<8125, 8125>>, <<8127, 8129>>, <<8141, 8143>>, <<8157, 8159>>, <<8173, 8175>>,
     <<8189, 8190>>, <<8203, 8207>>, <<8216, 8217>>, <<8228, 8228>>, <<8231, 8231>>,
     <<8234, 8238>>, <<8288, 8292>>, <<8294, 8303>>, <<8305, 8305>>, <<8319, 8319>>,
     <<8336, 8348>>, <<8400, 8432>>, <<11388, 11389>>, <<11503, 11505>>, <<11631, 11631>>,
     <<11647, 11647>>, <<11744, 11775>>, <<11823, 11823>>, <<12293, 12293>>,
     <<12330, 12333>>, <<12337, 12341>>, <<12347, 12347>>, <<12441, 12446>>,
     <<12540, 12542>>, <<40981, 40981>>, <<42232, 42237>>, <<42508, 42508>>,
     <<42607, 42610>>, <<42612, 42621>>, <<42623, 42623>>, <<42652, 42655>>,
     <<42736, 42737>>, <<42752, 42785>>, <<42864, 42864>>, <<42888, 42890>>,
     <<42994, 42996>>, <<43000, 43001>>, <<43010, 43010>>, <<43014, 43014>>,
     <<43019, 43019>>, <<43045, 43046>>, <<43052, 43052>>, <<43204, 43205>>,
     <<43232, 43249>>, <<43263, 43263>>, <<43302, 43309>>, <<43335, 43345>>,
     <<43392, 43394>>, <<43443, 43443>>, <<43446, 43449>>, <<43452, 43453>>,
     <<43471, 43471>>, <<43493, 43494>>, <<43561, 43566>>, <<43569, 43570>>,
     <<43573, 43574>>, <<43587, 43587>>, <<43596, 43596>>, <<43632, 43632>>,
     <<43644, 43644>>, <<43696, 43696>>, <<43698, 43700>>, <<43703, 43704>>,
     <<43710, 43711>>, <<43713, 43713>>, <<43741, 43741>>, <<43756, 43757>>,
     <<43763, 43764>>, <<43766, 43766>>, <<43867, 43871>>, <<43881, 43883>>,
     <<44005, 44005>>, <<44008, 44008>>, <<44013, 44013>>, <<64286, 64286>>,
     <<64434, 64450>>, <<65024, 65039>>, <<65043, 65043>>, <<65056, 65071>>,
     <<65106, 65106>>, <<65109, 65109>>, <<65279, 65279>>, <<65287, 65287>>,
     <<65294, 65294>>, <<65306, 65306>>, <<65342, 65342>>, <<65344, 65344>>,
     <<65392, 65392>>, <<65438, 65439>>, <<65507, 65507>>, <<65529, 65531>>,
     <<66045, 66045>>, <<66272, 66272>>, <<66422, 66426>>, <<67456, 67461>>,
     <<67463, 67504>>, <<67506, 67514>>, <<68097, 68099>>, <<68101, 68102>>,
     <<68108, 68111>>, <<68152, 68154>>, <<68159, 68159>>, <<68325, 68326>>,
     <<68900, 68903>>, <<69291, 69292>>, <<69446, 69456>>, <<69506, 69509>>,
     <<69633, 69633>>, <<69688, 69702>>, <<69744, 69744>>, <<69747, 69748>>,
     <<69759, 69761>>, <<69811, 69814>>, <<69817, 69818>>, <<69821, 69821>>,
     <<69826, 69826>>, <<69837, 69837>>, <<69888, 69890>>, <<69927, 69931>>,
     <<69933, 69940>>, <<70003, 70003>>, <<70016, 70017>>, <<70070, 70078>>,
     <<70089, 70092>>, <<70095, 70095>>, <<70191, 70193>>, <<70196, 70196>>,
     <<70198, 70199>>, <<70206, 70206>>, <<70367, 70367>>, <<70371, 70378>>,
     <<70400, 70401>>, <<70459, 70460>>, <<70464, 70464>>, <<70502, 70508>>,
     <<70512, 70516>>, <<70712, 70719>>, <<70722, 70724>>, <<70726, 70726>>,
     <<70750, 70750>>, <<70835, 70840>>, <<70842, 70842>>, <<70847, 70848>>,
     <<70850, 70851>>, <<71090, 71093>>, <<71100, 71101>>, <<71103, 71104>>,
     <<71132, 71133>>, <<71219, 71226>>, <<71229, 71229>>, <<71231, 71232>>,
     <<71339, 71339>>, <<71341, 71341>>, <<71344, 71349>>, <<71351, 71351>>,
     <<71453, 71455>>, <<71458, 71461>>, <<71463, 71467>>, <<71727, 71735>>,
     <<71737, 71738>>, <<71995, 71996>>, <<71998, 71998>>, <<72003, 72003>>,
     <<72148, 72151>>, <<72154, 72155>>, <<72160, 72160>>, <<72193, 72202>>,
     <<72243, 72248>>, <<72251, 72254>>, <<72263, 72263>>, <<72273, 72278>>,
     <<72281, 72283>>, <<72330, 72342>>, <<72344, 72345>>, <<72752, 72758>>,
     <<72760, 72765>>, <<72767, 72767>>, <<72850, 72871>>, <<72874, 72880>>,
     <<72882, 72883>>, <<72885, 72886>>, <<73009, 73014>>, <<73018, 73018>>,
     <<73020, 73021>>, <<73023, 73029>>, <<73031, 73031>>, <<73104, 73105>>,
     <<73109, 73109>>, <<73111, 73111>>, <<73459, 73460>>, <<78896, 78904>>,
     <<92912, 92916>>, <<92976, 92982>>, <<92992, 92995>>, <<94031, 94031>>,
     <<94095, 94111>>, <<94176, 94177>>, <<94179, 94180>>, <<110576, 110579>>,
     <<110581, 110587>>, <<110589, 110590>>, <<113821, 113822>>, <<113824, 113827>>,
     <<118528, 118573>>, <<118576, 118598>>, <<119143, 119145>>, <<119155, 119170>>,
     <<119173, 119179>>, <<119210, 119213>>, <<119362, 119364>>, <<121344, 121398>>,
     <<121403, 121452>>, <<121461, 121461>>, <<121476, 121476>>, <<121499, 121503>>,
     <<121505, 121519>>, <<122880, 122886>>, <<122888, 122904>>, <<122907, 122913>>,
     <<122915, 122916>>, <<122918, 122922>>, <<123184, 123197>>, <<123566, 123566>>,
     <<123628, 123631>>, <<125136, 125142>>, <<125252, 125259>>, <<127995, 127999>>,
     <<917505, 917505>>, <<917536, 917631>>, <<917760, 917999>> }

\* The cased letters among the other characters, as ranges <<first, last>>.
Cased ==
  {
     <<65, 90>>, <<97, 122>>, <<170, 170>>, <<181, 181>>, <<186, 186>>, <<192, 214>>,
     <<216, 246>>, <<248, 442>>, <<444, 447>>, <<452, 659>>, <<661, 687>>, <<880, 883>>,
     <<886, 887>>, <<891, 893>>, <<895, 895>>, <<902, 902>>, <<904, 906>>, <<908, 908>>,
     <<910, 929>>, <<931, 1013>>, <<1015, 1153>>, <<1162, 1327>>, <<1329, 1366>>,
     <<1376, 1416>>, <<4256, 4293>>, <<4295, 4295>>, <<4301, 4301>>, <<4304, 4346>>,
     <<4349, 4351>>, <<5024, 5109>>, <<5112, 5117>>, <<7296, 7304>>, <<7312, 7354>>,
     <<7357, 7359>>, <<7424, 7467>>, <<7531, 7543>>, <<7545, 7578>>, <<7680, 7957>>,
     <<7960, 7965>>, <<7968, 8005>>, <<8008, 8013>>, <<8016, 8023>>, <<8025, 8025>>,
     <<8027, 8027>>, <<8029, 8029>>, <<8031, 8061>>, <<8064, 8116>>, <<8118, 8124>>,
     <<8126, 8126>>, <<8130, 8132>>, <<8134, 8140>>, <<8144, 8147>>, <<8150, 8155>>,
     <<8160, 8172>>, <<8178, 8180>>, <<8182, 8188>>, <<8450, 8450>>, <<8455, 8455>>,
     <<8458, 8467>>, <<8469, 8469>>, <<8473, 8477>>, <<8484, 8484>>, <<8486, 8486>>,
     <<8488, 8488>>, <<8490, 8493>>, <<8495, 8500>>, <<8505, 8505>>, <<8508, 8511>>,
     <<8517, 8521>>, <<8526, 8526>>, <<8544, 8575>>, <<8579, 8580>>, <<9398, 9449>>,
     <<11264, 11387>>, <<11390, 11492>>, <<11499, 11502>>, <<11506, 11507>>,
     <<11520, 11557>>, <<11559, 11559>>, <<11565, 11565>>, <<42560, 42605>>,
     <<42624, 42651>>, <<42786, 42863>>, <<42865, 42887>>, <<42891, 42894>>,
     <<42896, 42954>>, <<42960, 42961>>, <<42963, 42963>>, <<42965, 42969>>,
     <<42997, 42998>>, <<43002, 43002>>, <<43824, 43866>>, <<43872, 43880>>,
     <<43888, 43967>>, <<64256, 64262>>, <<64275, 64279>>, <<65313, 65338>>,
     <<65345, 65370>>, <<66560, 66639>>, <<66736, 66771>>, <<66776, 66811>>,
     <<66928, 66938>>, <<66940, 66954>>, <<66956, 66962>>, <<66964, 66965>>,
     <<66967, 66977>>, <<66979, 66993>>, <<66995, 67001>>, <<67003, 67004>>,
     <<68736, 68786>>, <<68800, 68850>>, <<71840, 71903>>, <<93760, 93823>>,
     <<119808, 119892>>, <<119894, 119964>>, <<119966, 119967>>, <<119970, 119970>>,
     <<119973, 119974>>, <<119977, 119980>>, <<119982, 119993>>, <<119995, 119995>>,
     <<119997, 120003>>, <<120005, 120069>>, <<120071, 120074>>, <<120077, 120084>>,
     <<120086, 120092>>, <<120094, 120121>>, <<120123, 120126>>, <<120128, 120132>>,
     <<120134, 120134>>, <<120138, 120144>>, <<120146, 120485>>, <<120488, 120512>>,
     <<120514, 120538>>, <<120540, 120570>>, <<120572, 120596>>, <<120598, 120628>>,
     <<120630, 120654>>, <<120656, 120686>>, <<120688, 120712>>, <<120714, 120744>>,
     <<120746, 120770>>, <<120772, 120779>>, <<122624, 122633>>, <<122635, 122654>>,
     <<125184, 125251>>, <<127280, 127305>>, <<127312, 127337>>, <<127344, 127369>> }

InRanges(c, table) == \E r \in table : r[1] <= c /\ c <= r[2]

IsCaseIgnorable(c) == InRanges(c, CaseIgnorable)

IsCased(c) == InRanges(c, Cased)

\* Whether the capital sigma at s[i] ends a word: a cased letter before it and
\* none after it, case-ignorable characters not counted.
IsFinalSigma(s, i) ==
  /\ \E j \in 1..(i - 1) :
       /\ IsCased(s[j])
       /\ \A k \in (j + 1)..(i - 1) : IsCaseIgnorable(s[k])
  /\ ~\E j \in (i + 1)..Len(s) :
        /\ IsCased(s[j])
        /\ \A k \in (i + 1)..(j - 1) : IsCaseIgnorable(s[k])

\* what str.lower() puts in place of s[i]: U+0130 becomes two characters,
\* U+03A3 one of the two small sigmas
LowerAt(s, i) ==
  CASE s[i] = 304 -> <<105, 775>>
    [] s[i] = 931 -> IF IsFinalSigma(s, i) THEN <<962>> ELSE <<963>>
    [] OTHER -> <<LowerChar(s[i])>>

\* str.lower() of s[from..to]
RECURSIVE LowerSpan(_, _, _)
LowerSpan(s, from, to) ==
  IF from > to THEN <<>>
  ELSE IF from = to THEN LowerAt(s, from)
  ELSE LET middle == (from + to) \div 2
       IN LowerSpan(s, from, middle) \o LowerSpan(s, middle + 1, to)

\* str.lower()
Lower(s) ==
  IF \A k \in 1..Len(s) : s[k] < 128
  THEN SubSeq([k \in 1..Len(s) |-> LowerChar(s[k])], 1, Len(s))
  ELSE LowerSpan(s, 1, Len(s))

\* str.lstrip()
LStrip(s) ==
  IF \A k \in 1..Len(s) : IsSpace(s[k]) THEN <<>>
  ELSE SubSeq(s, CHOOSE k \in 1..Len(s) : ~IsSpace(s[k]) /\ \A j \in 1..(k - 1) : IsSpace(s[j]),
              Len(s))

\* str.rstrip()
RStrip(s) ==
  IF \A k \in 1..Len(s) : IsSpace(s[k]) THEN <<>>
  ELSE SubSeq(s, 1, CHOOSE k \in 1..Len(s) :
                      ~IsSpace(s[k]) /\ \A j \in (k + 1)..Len(s) : IsSpace(s[j]))

\* str.strip()
Strip(s) == RStrip(LStrip(s))

\* str.lstrip('/')
LStripSlash(s) ==
  IF \A k \in 1..Len(s) : s[k] = 47 THEN <<>>
  ELSE SubSeq(s, CHOOSE k \in 1..Len(s) : s[k] # 47 /\ \A j \in 1..(k - 1) : s[j] = 47, Len(s))

\* str.startswith(p)
StartsWith(s, p) == Len(s) >= Len(p) /\ SubSeq(s, 1, Len(p)) = p

\* sub in s
Contains(s, sub) ==
  \E i \in 1..(Len(s) - Len(sub) + 1) : SubSeq(s, i, i + Len(sub) - 1) = sub

\* ------------------------------------------------------------------------
\* Pages and fetch_page
\* ------------------------------------------------------------------------

\* Python's None
None == [type |-> "None"]

\* A str holding a page: the elements BeautifulSoup finds in it, in document
\* order, each with its tag, its attributes and its text nodes; raise_at names
\* the parsing step at which handling the page raises ("none": it never does).
Page(body, raise_at) == [type |-> "str", body |-> body, raise_at |-> raise_at]

\* the empty str
EmptyText == Page(<<>>, "none")

\* seeded fault: a test for None that takes the empty str for content
IsNone(html_content) == html_content = None

\* not html_content
NotContent(html_content) == html_content = None \/ html_content = EmptyText

\* What the network does with a request: a transport error or timeout
\* ("error"), a response with a status and a text ("http"), or a failure that
\* is no RequestException ("crash").
HttpAnswer(status, text) == [kind |-> "http", status |-> status, text |-> text]

TransportError == [kind |-> "error"]

Crash == [kind |-> "crash"]

\* seeded fault: raise_for_status that lets client errors through
IsServerError(status) == 500 <= status /\ status < 600

\* response.raise_for_status() raises
IsHttpError(status) == 400 <= status /\ status < 600

\* A call's outcome: the value returned, or exc when an exception leaves it
Return(value) == [exc |-> FALSE, value |-> value]

Raise == [exc |-> TRUE, value |-> None]

\* fetch_page: the text of the response, None on a RequestException
fetch_page(answer) ==
  CASE answer.kind = "crash" -> Raise
    [] answer.kind = "error" -> Return(None)
    [] answer.kind = "http" ->
         IF IsHttpError(answer.status) THEN Return(None) ELSE Return(answer.text)

\* Tag.get_text(): the text nodes joined
RECURSIVE Join(_, _)
Join(strings, separator) ==
  IF Len(strings) = 0 THEN <<>>
  ELSE IF Len(strings) = 1 THEN strings[1]
  ELSE strings[1] \o separator \o Join(Tail(strings), separator)

GetText(element) == Join(element.strings, <<>>)

\* Tag.get_text(strip=True, separator=' '): the stripped, non-empty text nodes
\* joined by one space
IsNonBlank(string) == Strip(string) # <<>>

RECURSIVE StripAll(_)
StripAll(strings) ==
  IF Len(strings) = 0 THEN <<>> ELSE <<Strip(strings[1])>> \o StripAll(Tail(strings))

GetTextStripped(element) == Join(StripAll(SelectSeq(element.strings, IsNonBlank)), <<32>>)

\* soup.get_text(): every text node of the page
RECURSIVE SoupText(_)
SoupText(body) == IF Len(body) = 0 THEN <<>> ELSE GetText(body[1]) \o SoupText(Tail(body))

\* soup.find(...): the first element that satisfies Test, None without one
Find(body, Test(_)) ==
  LET found == SelectSeq(body, Test) IN IF found = <<>> THEN None ELSE found[1]

IsH3(element) == element.tag = "h3"

HasClassCompany(element) == "company" \in element.attrs.class

HasClassJobDescription(element) == "job-description" \in element.attrs.class

HasClassContent(element) == "content" \in element.attrs.class

\* soup.find_all('a', href=True)
IsAnchorWithHref(element) == element.tag = "a" /\ "href" \in DOMAIN element.attrs

FindAllAnchors(body) == SelectSeq(body, IsAnchorWithHref)

\* ------------------------------------------------------------------------
\* parse_job_listings: link discovery
\* ------------------------------------------------------------------------

base_url == Str("https://vacancymail.co.zw/jobs/")

Keywords == {Str("job"), Str("vacancy"), Str("position"), Str("career")}

\* the condition of the job_related_links comprehension
IsJobRelated(a) ==
  \E keyword \in Keywords :
     Contains(Lower(GetText(a)), keyword) \/ Contains(Lower(a.attrs.href), keyword)

JobRelatedLinks(job_links) == SelectSeq(job_links, IsJobRelated)

\* 'next'
NextWord == Str("next")

\* 'http'
HttpWord == Str("http")

\* seeded fault: the loop without seen_titles.add(title)
RECURSIVE UniqueFromForgetting(_, _, _, _)
UniqueFromForgetting(links, i, seen_titles, unique_jobs) ==
  IF i > Len(links) THEN unique_jobs
  ELSE LET title == Strip(GetText(links[i]))
       IN IF title # <<>> /\ title \notin seen_titles /\ ~StartsWith(Lower(title), NextWord)
          THEN UniqueFromForgetting(links, i + 1, seen_titles, Append(unique_jobs, links[i]))
          ELSE UniqueFromForgetting(links, i + 1, seen_titles, unique_jobs)

\* seeded fault: the loop letting a later link take the place of an earlier
\* one with the same title
RECURSIVE UniqueFromKeepingLast(_, _, _, _)
UniqueFromKeepingLast(links, i, seen_titles, unique_jobs) ==
  IF i > Len(links) THEN unique_jobs
  ELSE LET title == Strip(GetText(links[i]))
       IN IF title # <<>> /\ ~StartsWith(Lower(title), NextWord)
          THEN IF title \notin seen_titles
               THEN UniqueFromKeepingLast(links, i + 1, seen_titles \cup {title},
                                          Append(unique_jobs, links[i]))
               ELSE UniqueFromKeepingLast(links, i + 1, seen_titles,
                      [k \in 1..Len(unique_jobs) |->
                         IF Strip(GetText(unique_jobs[k])) = title THEN links[i]
                         ELSE unique_jobs[k]])
          ELSE UniqueFromKeepingLast(links, i + 1, seen_titles, unique_jobs)

\* the loop that fills seen_titles and unique_jobs, from link i on
RECURSIVE UniqueFrom(_, _, _, _)
UniqueFrom(links, i, seen_titles, unique_jobs) ==
  IF i > Len(links) THEN unique_jobs
  ELSE LET title == Strip(GetText(links[i]))
       IN IF title # <<>> /\ title \notin seen_titles /\ ~StartsWith(Lower(title), NextWord)
          THEN UniqueFrom(links, i + 1, seen_titles \cup {title}, Append(unique_jobs, links[i]))
          ELSE UniqueFrom(links, i + 1, seen_titles, unique_jobs)

UniqueJobs(body) == UniqueFrom(JobRelatedLinks(FindAllAnchors(body)), 1, {}, <<>>)

ProcessLimit == 10

\* seeded fault: the loop over unique_jobs without the slice
AllJobs(unique_jobs) == unique_jobs

\* unique_jobs[:10]
FirstJobs(unique_jobs) == SubSeq(unique_jobs, 1, Min(ProcessLimit, Len(unique_jobs)))

\* job_data['title']
JobTitle(link) == Strip(GetText(link))

\* job_data['url']
JobUrl(link) ==
  IF ~StartsWith(link.attrs.href, HttpWord)
  THEN base_url \o LStripSlash(link.attrs.href)
  ELSE link.attrs.href

\* ------------------------------------------------------------------------
\* re: backtracking matcher for the patterns the scraper and strptime use
\* ------------------------------------------------------------------------

\* pattern constructors
Lit(s) == [op |-> "lit", s |-> s]

Cls(set) == [op |-> "cls", set |-> set]

Cat(parts) == [op |-> "cat", parts |-> parts]

Alt(alts) == [op |-> "alt", alts |-> alts]

\* r{lo,hi}, greedy
Rep(r, lo, hi) == [op |-> "rep", r |-> r, lo |-> lo, hi |-> hi]

\* (?P<name>r)
Grp(name, r) == [op |-> "grp", name |-> name, r |-> r]

\* r+ and r*: hi = -1 stands for "no upper limit"
Plus(r) == Rep(r, 1, -1)

Star(r) == Rep(r, 0, -1)

Opt(r) == Rep(r, 0, 1)

\* re.IGNORECASE: the character sre compares in place of c, which is its lower
\* case, and i for U+0130 and U+0131, s for U+017F, k for U+212A
IgnoreCase(c) ==
  IF c < 128 THEN (IF 65 <= c /\ c <= 90 THEN c + 32 ELSE c)
  ELSE CASE c \in {304, 305} -> 105
         [] c = 383 -> 115
         [] c = 8490 -> 107
         [] OTHER -> LowerChar(c)

\* whether a character set of a pattern takes c
InClass(c, set) == c \in set \/ IgnoreCase(c) \in set

\* The ways a character set repeated lo to hi times matches t from p, the
\* longest first: every length from the longest run of its characters down
\* to lo
RepeatClass(set, lo, hi, t, p, g) ==
  LET most == IF hi < 0 THEN Len(t) - p + 1 ELSE Min(hi, Len(t) - p + 1)
      run == Cardinality({n \in 1..most : \A k \in 0..(n - 1) : InClass(t[p + k], set)})
      least == IF lo < 0 THEN 0 ELSE lo
  IN [j \in 1..(run - least + 1) |-> [e |-> p + run - j + 1, g |-> g]]

\* All the ways pattern r matches text t from position p, in the order a
\* backtracking matcher tries them (re.IGNORECASE): each is the position
\* after the match and the spans of the groups it captured.
RECURSIVE Match(_, _, _), MatchCat(_, _, _, _, _), MatchAlt(_, _, _, _),
          MatchRep(_, _, _, _, _, _), ContinueRep(_, _, _, _, _, _)
Match(r, t, p) ==
  CASE r.op = "lit" ->
         IF /\ p + Len(r.s) - 1 <= Len(t)
            /\ \A k \in 1..Len(r.s) : IgnoreCase(t[p + k - 1]) = IgnoreCase(r.s[k])
         THEN << [e |-> p + Len(r.s), g |-> <<>>] >> ELSE <<>>
    [] r.op = "cls" ->
         IF p <= Len(t) /\ InClass(t[p], r.set)
         THEN << [e |-> p + 1, g |-> <<>>] >> ELSE <<>>
    [] r.op = "cat" -> MatchCat(r.parts, 1, t, p, <<>>)
    [] r.op = "alt" -> MatchAlt(r.alts, 1, t, p)
    [] r.op = "rep" -> MatchRep(r.r, r.lo, r.hi, t, p, <<>>)
    [] r.op = "grp" ->
         LET ms == Match(r.r, t, p)
         IN [k \in 1..Len(ms) |->
               [e |-> ms[k].e, g |-> Append(ms[k].g, <<r.name, p, ms[k].e>>)]]

MatchCat(parts, i, t, p, g) ==
  IF i > Len(parts) THEN << [e |-> p, g |-> g] >>
  ELSE LET ms == Match(parts[i], t, p)
           RECURSIVE Each(_)
           Each(k) == IF k > Len(ms) THEN <<>>
                      ELSE MatchCat(parts, i + 1, t, ms[k].e, g \o ms[k].g) \o Each(k + 1)
       IN Each(1)

MatchAlt(alts, i, t, p) ==
  IF i > Len(alts) THEN <<>> ELSE Match(alts[i], t, p) \o MatchAlt(alts, i + 1, t, p)

MatchRep(r, lo, hi, t, p, g) ==
  IF r.op = "cls" THEN RepeatClass(r.set, lo, hi, t, p, g)
  ELSE (IF hi # 0 THEN ContinueRep(r, lo, hi, t, p, g) ELSE <<>>)
         \o (IF lo <= 0 THEN << [e |-> p, g |-> g] >> ELSE <<>>)

ContinueRep(r, lo, hi, t, p, g) ==
  LET ms == Match(r, t, p)
      RECURSIVE Each(_)
      Each(k) == IF k > Len(ms) THEN <<>>
                 ELSE (IF ms[k].e > p
                       THEN MatchRep(r, lo - 1, IF hi > 0 THEN hi - 1 ELSE hi, t, ms[k].e,
                                     g \o ms[k].g)
                       ELSE <<>>) \o Each(k + 1)
  IN Each(1)

NoMatch == [found |-> FALSE]

\* re.match(r, t): the first way r matches at the start of t
ReMatch(r, t) ==
  LET ms == Match(r, t, 1)
  IN IF ms = <<>> THEN NoMatch ELSE [found |-> TRUE, e |-> ms[1].e, g |-> ms[1].g]

\* whether r matches the empty text
RECURSIVE Nullable(_)
Nullable(r) ==
  CASE r.op = "lit" -> r.s = <<>>
    [] r.op = "cls" -> FALSE
    [] r.op = "cat" -> \A k \in 1..Len(r.parts) : Nullable(r.parts[k])
    [] r.op = "alt" -> \E k \in 1..Len(r.alts) : Nullable(r.alts[k])
    [] r.op = "rep" -> r.lo <= 0 \/ Nullable(r.r)
    [] r.op = "grp" -> Nullable(r.r)

\* the characters a non-empty match of r can start with, as sre compares them
RECURSIVE FirstChars(_)
FirstChars(r) ==
  CASE r.op = "lit" -> IF r.s = <<>> THEN {} ELSE {IgnoreCase(r.s[1])}
    [] r.op = "cls" -> r.set \cup {IgnoreCase(c) : c \in r.set}
    [] r.op = "cat" ->
         UNION {FirstChars(r.parts[k]) :
                  k \in {n \in 1..Len(r.parts) : \A j \in 1..(n - 1) : Nullable(r.parts[j])}}
    [] r.op = "alt" -> UNION {FirstChars(r.alts[k]) : k \in 1..Len(r.alts)}
    [] r.op = "rep" -> FirstChars(r.r)
    [] r.op = "grp" -> FirstChars(r.r)

\* re.search(r, t): the first way r matches at the leftmost position it
\* matches at; a match starts only where its first character can stand
ReSearch(r, t) ==
  LET first == FirstChars(r)
      starts == IF Nullable(r) THEN 1..(Len(t) + 1)
                ELSE {p \in 1..Len(t) : IgnoreCase(t[p]) \in first}
      tried == {<<p, Match(r, t, p)>> : p \in starts}
      hits == {h \in tried : h[2] # <<>>}
  IN IF hits = {} THEN NoMatch
     ELSE LET leftmost == CHOOSE h \in hits : \A h2 \in hits : h[1] <= h2[1]
              m == leftmost[2][1]
          IN [found |-> TRUE, e |-> m.e, g |-> m.g]

\* m.group(name): the text of the last span captured under that name
Group(m, t, name) ==
  LET k == CHOOSE j \in 1..Len(m.g) :
              m.g[j][1] = name /\ \A j2 \in (j + 1)..Len(m.g) : m.g[j2][1] # name
  IN SubSeq(t, m.g[k][2], m.g[k][3] - 1)

\* ------------------------------------------------------------------------
\* extract_job_details
\* ------------------------------------------------------------------------

\* "N/A"
NA == Str("N/A")

\* the default location
DefaultLocation == Str("Harare, Zimbabwe")

\* "..."
Ellipsis == Str("...")

DefaultDetails ==
  [company |-> NA, location |-> DefaultLocation, expiry_date |-> NA, description |-> NA]

DescriptionLimit == 300

DescriptionKept == 297

\* seeded fault: the ellipsis added to the first 300 characters
TruncateLate(description) ==
  IF Len(description) > 300 THEN SubSeq(description, 1, 300) \o Ellipsis ELSE description

\* lines 119-120
Truncate(description) ==
  IF Len(description) > DescriptionLimit
  THEN SubSeq(description, 1, DescriptionKept) \o Ellipsis
  ELSE description

\* the pattern \d
AnyDigit == Cls(DigitSet)

\* the pattern \s
AnySpace == Cls(SpaceSet)

\* [/-]
Separators == {45, 47}

date_pattern ==
  Cat(<< Alt(<<Lit(Str("Expiry")), Lit(Str("Closing")), Lit(Str("Deadline")), Lit(Str("Due"))>>),
         Opt(Cat(<<Plus(AnySpace), Lit(Str("Date"))>>)),
         Opt(Lit(Str(":"))),
         Star(AnySpace),
         Grp("1", Alt(<<
           Cat(<<Rep(AnyDigit, 1, 2), Cls(Separators), Rep(AnyDigit, 1, 2), Cls(Separators), Rep(AnyDigit, 2, 4)>>),
           Cat(<<Rep(AnyDigit, 1, 2), Plus(AnySpace), Plus(Cls(AlphaSet)), Plus(AnySpace), Rep(AnyDigit, 2, 4)>>) >>)) >>)

location_pattern ==
  Cat(<< Alt(<<Lit(Str("Location")), Lit(Str("Place")), Lit(Str("City")), Lit(Str("Town")), Lit(Str("Based in")),
               Lit(Str("Position in"))>>),
         Opt(Cat(<<Star(AnySpace), Lit(Str(":"))>>)),
         Star(AnySpace),
         Grp("1", Plus(Cls(AlphaSet \cup SpaceSet \cup {44}))),
         Alt(<<Lit(Str(".")), Lit(Str(",")), Lit(Str("\n"))>>) >>)

\* lines 110-112
WithCompany(soup, details) ==
  LET h3 == Find(soup.body, IsH3)
      company_element == IF h3 # None THEN h3 ELSE Find(soup.body, HasClassCompany)
  IN IF company_element # None
     THEN [details EXCEPT !.company = Strip(GetText(company_element))]
     ELSE details

\* lines 115-121
WithDescription(soup, details) ==
  LET first == Find(soup.body, HasClassJobDescription)
      description_div == IF first # None THEN first ELSE Find(soup.body, HasClassContent)
  IN IF description_div # None
     THEN [details EXCEPT !.description = Truncate(GetTextStripped(description_div))]
     ELSE details

\* lines 124-128
WithExpiryDate(soup, details) ==
  LET text == SoupText(soup.body)
      date_match == ReSearch(date_pattern, text)
  IN IF date_match.found
     THEN [details EXCEPT !.expiry_date = Strip(Group(date_match, text, "1"))]
     ELSE details

\* lines 131-134
WithLocation(soup, details) ==
  LET text == SoupText(soup.body)
      location_match == ReSearch(location_pattern, text)
  IN IF location_match.found
     THEN [details EXCEPT !.location = Strip(Group(location_match, text, "1"))]
     ELSE details

\* The outcome of extract_job_details: the details returned, whether an
\* exception left the function, and the field-extraction steps it began.
Extracted(exc, details, steps) == [exc |-> exc, value |-> details, steps |-> steps]

\* seeded fault: a handler that lets the exception go on
Reraise(details, steps) == Extracted(TRUE, details, steps)

\* lines 138-140: the handler returns the details dict as it stands
CatchExtract(details, steps) == Extracted(FALSE, details, steps)

\* lines 107-136, from the details dict as initialised
ExtractFields(soup) ==
  LET d0 == DefaultDetails
      d1 == WithCompany(soup, d0)
      d2 == WithDescription(soup, d1)
      d3 == WithExpiryDate(soup, d2)
      d4 == WithLocation(soup, d3)
  IN CASE soup.raise_at = "soup" -> CatchExtract(d0, <<>>)
       [] soup.raise_at = "company" -> CatchExtract(d0, <<"company">>)
       [] soup.raise_at = "description" -> CatchExtract(d1, <<"company", "description">>)
       [] soup.raise_at = "expiry_date" ->
            CatchExtract(d2, <<"company", "description", "expiry_date">>)
       [] soup.raise_at = "location" ->
            CatchExtract(d3, <<"company", "description", "expiry_date", "location">>)
       [] OTHER -> Extracted(FALSE, d4, <<"company", "description", "expiry_date", "location">>)

\* extract_job_details, given what the network answers for job_url
extract_job_details(answer) ==
  LET fetched == fetch_page(answer)
  IN IF fetched.exc THEN CatchExtract(DefaultDetails, <<>>)
     ELSE IF NotContent(fetched.value) THEN Extracted(FALSE, DefaultDetails, <<>>)
     ELSE ExtractFields(fetched.value)

\* ------------------------------------------------------------------------
\* clean_data
\* ------------------------------------------------------------------------

\* int(s) for a str of decimal digits
RECURSIVE ToInt(_)
ToInt(s) ==
  IF Len(s) = 0 THEN 0
  ELSE 10 * ToInt(SubSeq(s, 1, Len(s) - 1)) + DigitValue(s[Len(s)])

\* str(n) for n >= 0
RECURSIVE ToStr(_)
ToStr(n) ==
  IF n < 10 THEN <<48 + n>> ELSE ToStr(n \div 10) \o <<48 + (n % 10)>>

\* n in decimal, zero-padded to at least width characters
RECURSIVE ZeroPad(_, _)
ZeroPad(s, width) == IF Len(s) >= width THEN s ELSE ZeroPad(<<48>> \o s, width)

\* the directives of _strptime.TimeRE
Directive_d ==
  Grp("d", Alt(<< Cat(<<Lit(Str("3")), Cls(48..49)>>),
                  Cat(<<Cls(49..50), AnyDigit>>),
                  Cat(<<Lit(Str("0")), Cls(49..57)>>),
                  Cls(49..57),
                  Cat(<<Lit(Str(" ")), Cls(49..57)>>) >>))

Directive_m ==
  Grp("m", Alt(<< Cat(<<Lit(Str("1")), Cls(48..50)>>),
                  Cat(<<Lit(Str("0")), Cls(49..57)>>),
                  Cls(49..57) >>))

Directive_Y == Grp("Y", Cat(<<AnyDigit, AnyDigit, AnyDigit, AnyDigit>>))

\* calendar.month_name[1:], lower-cased
MonthNames ==
  << Str("january"), Str("february"), Str("march"), Str("april"), Str("may"), Str("june"),
     Str("july"), Str("august"), Str("september"), Str("october"), Str("november"),
     Str("december") >>

\* calendar.month_abbr[1:], lower-cased
MonthAbbrs ==
  << Str("jan"), Str("feb"), Str("mar"), Str("apr"), Str("may"), Str("jun"), Str("jul"),
     Str("aug"), Str("sep"), Str("oct"), Str("nov"), Str("dec") >>

\* the alternation TimeRE builds from the names: longest first
Directive_B ==
  Grp("B", Alt(<< Lit(Str("september")), Lit(Str("february")), Lit(Str("november")),
                  Lit(Str("december")), Lit(Str("january")), Lit(Str("october")),
                  Lit(Str("august")), Lit(Str("march")), Lit(Str("april")), Lit(Str("june")),
                  Lit(Str("july")), Lit(Str("may")) >>))

Directive_b == Grp("b", Alt([k \in 1..12 |-> Lit(MonthAbbrs[k])]))

\* whitespace in a format matches \s+
FormatSpace == Plus(AnySpace)

\* date_formats, each as the pattern strptime compiles it to
date_formats ==
  << Cat(<<Directive_d, Lit(Str("-")), Directive_m, Lit(Str("-")), Directive_Y>>),
     Cat(<<Directive_d, Lit(Str("/")), Directive_m, Lit(Str("/")), Directive_Y>>),
     Cat(<<Directive_Y, Lit(Str("-")), Directive_m, Lit(Str("-")), Directive_d>>),
     Cat(<<Directive_B, FormatSpace, Directive_d, Lit(Str(",")), FormatSpace, Directive_Y>>),
     Cat(<<Directive_d, FormatSpace, Directive_B, FormatSpace, Directive_Y>>),
     Cat(<<Directive_d, FormatSpace, Directive_b, FormatSpace, Directive_Y>>) >>

HasGroup(m, name) == \E j \in 1..Len(m.g) : m.g[j][1] = name

IsLeap(year) == year % 4 = 0 /\ (year % 100 # 0 \/ year % 400 = 0)

DaysInMonth(year, month) ==
  IF month = 2 THEN (IF IsLeap(year) THEN 29 ELSE 28)
  ELSE IF month \in {4, 6, 9, 11} THEN 30 ELSE 31

\* names.index(name) + 1, or 0 where list.index raises ValueError
IndexIn(name, names) ==
  IF \E k \in 1..Len(names) : names[k] = name
  THEN CHOOSE k \in 1..Len(names) : names[k] = name
  ELSE 0

ValueError == [ok |-> FALSE]

\* datetime.strptime(date_str, fmt): the date, or ValueError
strptime(date_str, format_regex) ==
  LET found == ReMatch(format_regex, date_str)
  IN IF ~found.found THEN ValueError
     ELSE IF Len(date_str) # found.e - 1 THEN ValueError
     ELSE LET year == ToInt(Group(found, date_str, "Y"))
              month == IF HasGroup(found, "m") THEN ToInt(Group(found, date_str, "m"))
                       ELSE IF HasGroup(found, "B")
                       THEN IndexIn(Lower(Group(found, date_str, "B")), MonthNames)
                       ELSE IndexIn(Lower(Group(found, date_str, "b")), MonthAbbrs)
              day == ToInt(LStrip(Group(found, date_str, "d")))
          IN IF year < 1 \/ month < 1 \/ day > DaysInMonth(year, month) THEN ValueError
             ELSE [ok |-> TRUE, year |-> year, month |-> month, day |-> day]

\* seeded fault: date_obj.strftime("%m/%d/%Y")
strftime_us(date_obj, pads_year) ==
  ZeroPad(ToStr(date_obj.month), 2) \o <<47>> \o ZeroPad(ToStr(date_obj.day), 2) \o <<47>>
    \o (IF pads_year THEN ZeroPad(ToStr(date_obj.year), 4) ELSE ToStr(date_obj.year))

\* date_obj.strftime("%Y-%m-%d"); the C library decides whether %Y pads a
\* year below 1000 with zeros
strftime_date(date_obj, pads_year) ==
  (IF pads_year THEN ZeroPad(ToStr(date_obj.year), 4) ELSE ToStr(date_obj.year))
    \o <<45>> \o ZeroPad(ToStr(date_obj.month), 2) \o <<45>> \o ZeroPad(ToStr(date_obj.day), 2)

\* the loop over date_formats, from format i on
RECURSIVE TryFormats(_, _, _)
TryFormats(date_str, i, pads_year) ==
  IF i > Len(date_formats) THEN date_str
  ELSE LET date_obj == strptime(date_str, date_formats[i])
       IN IF date_obj.ok THEN strftime_date(date_obj, pads_year)
          ELSE TryFormats(date_str, i + 1, pads_year)

standardize_date(date_str, pads_year) ==
  IF date_str = NA THEN date_str ELSE TryFormats(date_str, 1, pads_year)

\* datetime.now().strftime("%Y-%m-%d %H:%M:%S")
strftime_now(now, pads_year) ==
  strftime_date(now, pads_year) \o <<32>> \o ZeroPad(ToStr(now.hour), 2) \o <<58>>
    \o ZeroPad(ToStr(now.minute), 2) \o <<58>> \o ZeroPad(ToStr(now.second), 2)

expected_columns ==
  <<"title", "url", "company", "location", "expiry_date", "description", "scraped_at">>

\* A DataFrame: its column labels in order and its rows
DataFrame(columns, rows) == [columns |-> columns, rows |-> rows]

\* pd.DataFrame()
EmptyFrame == DataFrame(<<>>, <<>>)

\* df.drop_duplicates(subset=['title'], keep='first'), from row i on
RECURSIVE DropDuplicates(_, _, _)
DropDuplicates(rows, i, titles) ==
  IF i > Len(rows) THEN <<>>
  ELSE IF rows[i].title \in titles THEN DropDuplicates(rows, i + 1, titles)
  ELSE <<rows[i]>> \o DropDuplicates(rows, i + 1, titles \cup {rows[i].title})

\* lines 170-182 for one row: the date standardised, the timestamp set, the
\* expected columns selected, "N/A" in those the frame lacks
CleanRow(row, scraped_at, pads_year) ==
  [col \in {expected_columns[k] : k \in 1..Len(expected_columns)} |->
     IF col = "scraped_at" THEN scraped_at
     ELSE IF col = "expiry_date" THEN standardize_date(row.expiry_date, pads_year)
     ELSE IF col \in DOMAIN row THEN row[col]
     ELSE NA]

\* clean_data: job_listings are dicts with the same keys, as parse_job_listings
\* builds them
clean_data(job_listings, now, pads_year) ==
  IF job_listings = <<>> THEN EmptyFrame
  ELSE LET kept == DropDuplicates(job_listings, 1, {})
       IN DataFrame(expected_columns,
                    [k \in 1..Len(kept) |-> CleanRow(kept[k], strftime_now(now, pads_year), pads_year)])

\* ------------------------------------------------------------------------
\* save_to_csv
\* ------------------------------------------------------------------------

\* df.empty
DfEmpty(df) == df.rows = <<>> \/ df.columns = <<>>

\* The file df.to_csv(index=False) writes: the header line and one line of
\* values per row
ToCsv(df) ==
  [exists |-> TRUE,
   header |-> df.columns,
   lines |-> [k \in 1..Len(df.rows) |-> [c \in 1..Len(df.columns) |-> df.rows[k][df.columns[c]]]]]

\* ------------------------------------------------------------------------
\* The world a run meets: what the network answers, the clock, the disk
\* ------------------------------------------------------------------------

Element(tag, class, strings) == [tag |-> tag, attrs |-> [class |-> class], strings |-> strings]

Anchor(text, href) == [tag |-> "a", attrs |-> [class |-> {}, href |-> href], strings |-> <<text>>]

\* anchors a listing page may carry
LinkPool ==
  { Anchor(Str("Job A"), Str("/jobs/a")),
    Anchor(<<8195>> \o Str("\fJob A\n"), Str("/jobs/a2")),
    Anchor(Str("POS") \o <<304>> \o Str("TION"), Str("/about/engineer")),
    Anchor(Str("Engineer"), Str("http://example.zw/Vacancy/7")),
    Anchor(Str("Next Jobs"), Str("/jobs/?page=2")),
    Anchor(<<12, 5760, 32>>, Str("/jobs/blank")),
    Element("a", {}, <<Str("Job B")>>) }

\* longest listing page made of pool anchors
MaxLinks == 2

\* most leading distinct job links on a long listing page
MaxFill == 11

RECURSIVE SeqsUpTo(_, _)
SeqsUpTo(pool, n) ==
  IF n = 0 THEN {<<>>}
  ELSE LET shorter == SeqsUpTo(pool, n - 1)
       IN shorter \cup {Append(q, x) : q \in {r \in shorter : Len(r) = n - 1}, x \in pool}

\* k distinct job links: "Vacancy 1" ... "Vacancy k"
Filler(k) == [j \in 1..k |-> Anchor(Str("Vacancy ") \o ToStr(j), Str("/jobs/v") \o ToStr(j))]

\* short listing pages: pool anchors in any order
ShortBodies == SeqsUpTo(LinkPool, MaxLinks) \ {<<>>}

\* what may follow the leading job links of a long listing page: at most one
\* pool anchor, a title seen before, or two anchors that share a title
LongTails ==
  SeqsUpTo(LinkPool, 1)
    \cup { <<Anchor(Str(" Vacancy 1 "), Str("/jobs/v1-again"))>>,
           <<Anchor(Str(" Vacancy 1 "), Str("/jobs/v1-again")), Anchor(Str("Job A"), Str("/jobs/a"))>>,
           <<Anchor(Str("Job A"), Str("/jobs/a")), Anchor(<<8195>> \o Str("\fJob A\n"), Str("/jobs/a2"))>>,
           <<Anchor(Str("Engineer"), Str("/about/engineer")), Anchor(Str("Engineer"), Str("http://example.zw/Vacancy/7"))>> }

\* long listing pages: a run of distinct job links up to and past the limit,
\* then one of the tails
LongBodies == {Filler(k) \o tail : k \in (ProcessLimit - 1)..MaxFill, tail \in LongTails}

\* what the site may answer for base_url
ListingAnswers ==
  {TransportError, Crash, HttpAnswer(200, EmptyText),
   HttpAnswer(404, Page(<<Anchor(Str("Job A"), Str("/jobs/a"))>>, "none"))}
    \cup {HttpAnswer(200, Page(body, "none")) : body \in ShortBodies}

LongListingAnswers == {HttpAnswer(200, Page(body, "none")) : body \in LongBodies}

\* a detail page with every field
FullDetailBody ==
  << Element("h3", {}, <<Str(" Acme Ltd ")>>),
     Element("div", {"job-description"}, <<Str("Keep the books. "), Str("\n"), Str(" Apply by post.")>>),
     Element("p", {}, <<Str("Location: Gweru, Zimbabwe.\n")>>),
     Element("p", {}, <<Str("Closing Date: 25 December 2024")>>) >>

\* a short detail page with every field
BriefDetailBody ==
  << Element("h3", {}, <<Str(" Acme Ltd ")>>),
     Element("div", {"job-description"}, <<Str("Keep books. "), Str("\n"), Str(" Apply.")>>),
     Element("p", {}, <<Str("City: Gweru.")>>),
     Element("p", {}, <<Str("Due:") \o <<160>> \o Str("1/2/2025")>>) >>

\* detail answers that yield no content, or a page whose parsing raises
FaultyDetailAnswers ==
  { TransportError,
    HttpAnswer(200, EmptyText),
    HttpAnswer(200, Page(BriefDetailBody, "description")) }

\* what the site may answer for a job_url during a run
DetailAnswers == {HttpAnswer(200, Page(BriefDetailBody, "none"))} \cup FaultyDetailAnswers

\* most faulty detail answers in one run
MaxFaults == 2

\* datetime.now() at the time of cleaning
Clock == {[year |-> 2025, month |-> 4, day |-> 14, hour |-> 23, minute |-> 50, second |-> 42]}

NoFile == [exists |-> FALSE]

\* what an earlier run left
OldFile ==
  [exists |-> TRUE, header |-> expected_columns,
   lines |-> << <<Str("Old Job"), Str("https://vacancymail.co.zw/jobs/old"), NA,
                  DefaultLocation, NA, NA, Str("2025-04-13 09:00:01")>> >>]

PriorFiles == {NoFile, OldFile}

\* what a call of df.to_csv may do
ToCsvOutcomes == {"written", "refused", "truncated"}

\* the file a failed write leaves once it has opened it
TruncatedFile == [exists |-> TRUE, header |-> <<>>, lines |-> <<>>]

\* ------------------------------------------------------------------------
\* run
\* ------------------------------------------------------------------------

VARIABLES
  pc,            \* where run stands
  web,           \* what the site answers for base_url
  html_content,  \* run's html_content
  unique_jobs,   \* the links parse_job_listings loops over: unique_jobs[:10]
  i,             \* position of the loop in unique_jobs
  title,         \* the loop's title
  job_url,       \* the loop's job_url
  fetched,       \* what the site answered for job_url
  job_listings,  \* parse_job_listings's job_listings
  df,            \* run's df
  output_file,   \* content of self.output_file on disk
  start_file,    \* content of self.output_file when the run started
  result,        \* what run returned
  events,        \* the requests sent, extractions finished and writes done
  faults_left,   \* faulty answers the site still gives for job pages
  arg,           \* argument of a function called on its own
  ret            \* what the function called on its own returned

vars ==
  <<pc, web, html_content, unique_jobs, i, title, job_url, fetched, job_listings, df,
    output_file, start_file, result, events, faults_left, arg, ret>>

NoAnswer == [kind |-> "none"]

\* the scraper constructed, run not yet started, the site answering from
\* answers and giving at most faulty faulty job pages
InitWith(answers, faulty) ==
  /\ pc = "fetch_listing"
  /\ web \in answers
  /\ html_content = None
  /\ unique_jobs = <<>>
  /\ i = 0
  /\ title = <<>>
  /\ job_url = <<>>
  /\ fetched = NoAnswer
  /\ job_listings = <<>>
  /\ df = EmptyFrame
  /\ output_file \in PriorFiles
  /\ start_file = output_file
  /\ result = "running"
  /\ events = <<>>
  /\ faults_left = faulty
  /\ arg = <<>>
  /\ ret = <<>>

Init == InitWith(ListingAnswers, MaxFaults)

InitLong == InitWith(LongListingAnswers, 0)

\* seeded fault: return True
ReturnTrue ==
  /\ pc' = "done"
  /\ result' = "True"

\* return False
ReturnFalse ==
  /\ pc' = "done"
  /\ result' = "False"

\* lines 208-211
FetchListing ==
  /\ pc = "fetch_listing"
  /\ \E got \in {fetch_page(web)} :
        IF got.exc \/ NotContent(got.value)
        THEN ReturnFalse /\ UNCHANGED html_content
        ELSE /\ html_content' = got.value
             /\ pc' = "parse"
             /\ UNCHANGED result
  /\ events' = Append(events, <<"request", base_url>>)
  /\ UNCHANGED <<web, unique_jobs, i, title, job_url, fetched, job_listings, df, output_file,
                 start_file, faults_left, arg, ret>>

\* lines 55-73: the links to process
DiscoverJobs ==
  /\ pc = "parse"
  /\ unique_jobs' = FirstJobs(UniqueJobs(html_content.body))
  /\ i' = 1
  /\ pc' = "loop"
  /\ UNCHANGED <<web, html_content, title, job_url, fetched, job_listings, df, output_file,
                 start_file, result, events, faults_left, arg, ret>>

\* lines 76-81 and 103: title and job_url of the next link, and the request
\* for its page
FetchDetail ==
  /\ pc = "loop"
  /\ i <= Len(unique_jobs)
  /\ title' = JobTitle(unique_jobs[i])
  /\ job_url' = JobUrl(unique_jobs[i])
  /\ \E answer \in DetailAnswers :
       IF answer \in FaultyDetailAnswers
       THEN faults_left > 0 /\ faults_left' = faults_left - 1 /\ fetched' = answer
       ELSE UNCHANGED faults_left /\ fetched' = answer
  /\ events' = Append(events, <<"request", job_url'>>)
  /\ pc' = "extract"
  /\ UNCHANGED <<web, html_content, unique_jobs, i, job_listings, df, output_file,
                 start_file, result, arg, ret>>

\* job_data as lines 76-82 build it
JobData(job_title, url, job_details) ==
  [title |-> job_title, url |-> url, company |-> job_details.company,
   location |-> job_details.location, expiry_date |-> job_details.expiry_date,
   description |-> job_details.description]

\* lines 104-140 and 82-85: the job page is parsed and the job recorded; an
\* exception leaving extract_job_details ends the loop at line 89
ExtractDetail ==
  /\ pc = "extract"
  /\ \E job_details \in {extract_job_details(fetched)} :
        IF job_details.exc
        THEN /\ job_listings' = <<>>
             /\ pc' = "parsed"
             /\ UNCHANGED <<i, events>>
        ELSE /\ job_listings' = Append(job_listings, JobData(title, job_url, job_details.value))
             /\ events' = Append(events, <<"extracted", job_url>>)
             /\ i' = i + 1
             /\ pc' = "loop"
  /\ fetched' = NoAnswer
  /\ UNCHANGED <<web, html_content, unique_jobs, title, job_url, df, output_file, start_file,
                 result, faults_left, arg, ret>>

\* not job_listings
NoListings(listings) == listings = <<>>

\* lines 87 and 214-217: parse_job_listings returns and run looks at the list
CheckListings ==
  /\ \/ pc = "loop" /\ i > Len(unique_jobs)
     \/ pc = "parsed"
  /\ IF NoListings(job_listings)
     THEN ReturnFalse
     ELSE pc' = "clean" /\ UNCHANGED result
  /\ UNCHANGED <<web, html_content, unique_jobs, i, title, job_url, fetched, job_listings, df,
                 output_file, start_file, events, faults_left, arg, ret>>

\* line 220
CleanData ==
  /\ pc = "clean"
  /\ \E now \in Clock, pads_year \in BOOLEAN : df' = clean_data(job_listings, now, pads_year)
  /\ pc' = "save"
  /\ UNCHANGED <<web, html_content, unique_jobs, i, title, job_url, fetched, job_listings,
                 output_file, start_file, result, events, faults_left, arg, ret>>

\* lines 186-200 and 223-226: df.to_csv is called unless the frame is empty;
\* it writes the file, or raises before it opens the file, or raises after it
\* has truncated it
SaveToCsv ==
  /\ pc = "save"
  /\ IF DfEmpty(df)
     THEN /\ result' = "False"
          /\ UNCHANGED <<output_file, events>>
     ELSE /\ events' = Append(events, <<"write", "csv">>)
          /\ \E outcome \in ToCsvOutcomes :
               CASE outcome = "written" -> output_file' = ToCsv(df) /\ result' = "True"
                 [] outcome = "refused" -> UNCHANGED output_file /\ result' = "False"
                 [] outcome = "truncated" -> output_file' = TruncatedFile /\ result' = "False"
  /\ pc' = "done"
  /\ UNCHANGED <<web, html_content, unique_jobs, i, title, job_url, fetched, job_listings, df,
                 start_file, faults_left, arg, ret>>

Next ==
  \/ FetchListing
  \/ DiscoverJobs
  \/ FetchDetail
  \/ ExtractDetail
  \/ CheckListings
  \/ CleanData
  \/ SaveToCsv

\* a run on a listing page of a few links
Spec == Init /\ [][Next]_vars

\* a run on a listing page with more job links than the limit
SpecLong == InitLong /\ [][Next]_vars

\* ------------------------------------------------------------------------
\* extract_job_details called on its own
\* ------------------------------------------------------------------------

\* s repeated n times
RECURSIVE Repeat(_, _)
Repeat(s, n) ==
  IF n = 0 THEN <<>>
  ELSE LET half == Repeat(s, n \div 2)
       IN half \o half \o (IF n % 2 = 1 THEN s ELSE <<>>)

\* lengths of the description text on the pages tried: around the limit, and
\* well past it
DescriptionLengths ==
  {1, DescriptionKept, DescriptionLimit - 1, DescriptionLimit, DescriptionLimit + 1, 350}

\* how a page names the company: in an h3, in an element of class company, or
\* not at all
CompanyElements ==
  { <<Element("h3", {}, <<Str(" Acme Ltd ")>>)>>,
    <<Element("span", {"company"}, <<Str("Acme Ltd")>>)>>,
    <<>> }

\* how a page carries the description: in an element of class job-description
\* or content, with a text of one of the lengths, or not at all
DescriptionElements ==
  {<<>>} \cup {<<Element("div", {class}, <<Repeat(Str("x"), n)>>)>> :
                 class \in {"job-description", "content"}, n \in DescriptionLengths}

\* the rest of a job page
DetailFooter ==
  << Element("p", {}, <<Str("Location: Gweru, Zimbabwe.\n")>>),
     Element("p", {}, <<Str("Closing Date: 25 December 2024")>>) >>

\* the parsing steps at which handling a page may raise
RaisingSteps == {"soup", "company", "description", "expiry_date", "location"}

\* what the site may answer for the job_url extract_job_details is called with
ExtractAnswers ==
  {TransportError, Crash, HttpAnswer(200, EmptyText), HttpAnswer(200, Page(FullDetailBody, "none")),
   HttpAnswer(503, Page(FullDetailBody, "none"))}
    \cup {HttpAnswer(200, Page(company \o description \o DetailFooter, "none")) :
            company \in CompanyElements, description \in DescriptionElements}
    \cup {HttpAnswer(200, Page(company \o DetailFooter, raise_at)) :
            company \in CompanyElements, raise_at \in RaisingSteps}
    \cup {HttpAnswer(200, Page(FullDetailBody, raise_at)) : raise_at \in RaisingSteps}

\* before the call
InitExtract ==
  /\ pc = "call_extract"
  /\ arg \in ExtractAnswers
  /\ ret = <<>>
  /\ web = NoAnswer
  /\ html_content = None
  /\ unique_jobs = <<>>
  /\ i = 0
  /\ title = <<>>
  /\ job_url = <<>>
  /\ fetched = NoAnswer
  /\ job_listings = <<>>
  /\ df = EmptyFrame
  /\ output_file = NoFile
  /\ start_file = NoFile
  /\ result = "running"
  /\ events = <<>>
  /\ faults_left = 0

\* details = extract_job_details(job_url), the site answering arg
CallExtract ==
  /\ pc = "call_extract"
  /\ ret' = extract_job_details(arg)
  /\ pc' = "returned"
  /\ UNCHANGED <<web, html_content, unique_jobs, i, title, job_url, fetched, job_listings, df,
                 output_file, start_file, result, events, faults_left, arg>>

NextExtract == CallExtract

SpecExtract == InitExtract /\ [][NextExtract]_vars

\* ------------------------------------------------------------------------
\* clean_data called on its own, then on the rows of what it returned
\* ------------------------------------------------------------------------

\* expiry dates as extract_job_details may find them, and as clean_data writes them
DateStrings ==
  {NA, <<50, 1637>> \o Str("-12-") \o <<1634, 1632, 1634, 1636>>, Str("1/2/2024"),
   Str("01/02/0312"), Str("2024-12-25"), Str("December 25, 2024"), Str("25 December 2024"),
   Str("5") \o <<8239>> \o Str("jan 2025"), Str("31/02/2024"), Str("29 February 2023"),
   Str("12/25/2024"), Str("soon")}

\* a job as parse_job_listings records it
Job(job_title, url, expiry_date) ==
  [title |-> job_title, url |-> url, company |-> Str("Acme Ltd"), location |-> DefaultLocation,
   expiry_date |-> expiry_date, description |-> Str("Keep the books.")]

\* most jobs handed to clean_data
MaxJobs == 2

\* the jobs tried: the first of a list is Job A, a later one may repeat its title
JobLists ==
  LET first == {Job(Str("Job A"), Str("https://vacancymail.co.zw/jobs/a"), d) : d \in DateStrings}
      later == {Job(t, Str("https://vacancymail.co.zw/jobs/b"), d) :
                  t \in {Str("Job A"), Str("Engineer")}, d \in {Str("1/2/2024"), NA}}
  IN {<<>>} \cup {<<job>> \o rest : job \in first, rest \in SeqsUpTo(later, MaxJobs - 1)}

\* datetime.now() at the second call
LaterClock ==
  Clock \cup {[year |-> 2025, month |-> 4, day |-> 15, hour |-> 9, minute |-> 0, second |-> 7]}

\* before the first call; pads_year is the C library's way with %Y
InitClean ==
  /\ pc = "call_clean"
  /\ arg \in [job_listings : JobLists, pads_year : BOOLEAN]
  /\ ret = <<>>
  /\ web = NoAnswer
  /\ html_content = None
  /\ unique_jobs = <<>>
  /\ i = 0
  /\ title = <<>>
  /\ job_url = <<>>
  /\ fetched = NoAnswer
  /\ job_listings = <<>>
  /\ df = EmptyFrame
  /\ output_file = NoFile
  /\ start_file = NoFile
  /\ result = "running"
  /\ events = <<>>
  /\ faults_left = 0

\* df = clean_data(job_listings)
CallClean ==
  /\ pc = "call_clean"
  /\ \E now \in Clock : ret' = <<clean_data(arg.job_listings, now, arg.pads_year)>>
  /\ pc' = "cleaned"
  /\ UNCHANGED <<web, html_content, unique_jobs, i, title, job_url, fetched, job_listings, df,
                 output_file, start_file, result, events, faults_left, arg>>

\* clean_data(df.to_dict('records'))
CallCleanAgain ==
  /\ pc = "cleaned"
  /\ \E now \in LaterClock : ret' = Append(ret, clean_data(ret[1].rows, now, arg.pads_year))
  /\ pc' = "cleaned_again"
  /\ UNCHANGED <<web, html_content, unique_jobs, i, title, job_url, fetched, job_listings, df,
                 output_file, start_file, result, events, faults_left, arg>>

NextClean ==
  \/ CallClean
  \/ CallCleanAgain

SpecClean == InitClean /\ [][NextClean]_vars

\* ------------------------------------------------------------------------
\* Properties
\* ------------------------------------------------------------------------

\* the record extract_job_details starts from, spelled out
AllDefaults ==
  [company |-> Str("N/A"), location |-> Str("Harare, Zimbabwe"), expiry_date |-> Str("N/A"),
   description |-> Str("N/A")]

\* df.to_csv was called
Written == \E k \in 1..Len(events) : events[k][1] = "write"

\* the rows of the file that carry a title
RowsTitled(job_title) == {k \in 1..Len(output_file.lines) : output_file.lines[k][1] = job_title}

\* a link the discovery loop takes up when it has not seen its title yet
Accepted(a) ==
  LET link_title == Strip(GetText(a))
  IN IsJobRelated(a) /\ link_title # <<>> /\ ~StartsWith(Lower(link_title), Str("next"))

\* C1: the candidates parse_job_listings processes, and the records it
\* returns, are at most 10 and no two of them have the same trimmed title.
C1_AtMostTenDistinctTitles ==
  /\ Len(unique_jobs) <= 10
  /\ Cardinality({Strip(GetText(unique_jobs[k])) : k \in 1..Len(unique_jobs)}) = Len(unique_jobs)
  /\ Len(job_listings) <= 10
  /\ Cardinality({Strip(job_listings[k].title) : k \in 1..Len(job_listings)}) = Len(job_listings)

\* C1, reached: a run over a page with more than 10 distinct job titles, one
\* of them repeated, ended with 10 records.
C1_Witness ==
  /\ pc = "done"
  /\ Len(job_listings) = 10
  /\ LET links == JobRelatedLinks(FindAllAnchors(web.text.body))
         titles == {Strip(GetText(links[k])) : k \in 1..Len(links)}
     IN Cardinality(titles) > 10 /\ Cardinality(titles) < Len(links)

\* the site gives no listing page: no response, an error status, or no text
ListingUnavailable ==
  \/ web.kind \in {"error", "crash"}
  \/ web.kind = "http" /\ (web.status >= 400 \/ web.text = EmptyText)

\* C2: when the fetch of the listing page fails, run returns False, and the
\* output file holds what it held when the run started: to_csv is never called.
C2_ListingFailureLeavesFile ==
  (pc # "fetch_listing" /\ ListingUnavailable) =>
     /\ pc = "done"
     /\ result = "False"
     /\ output_file = start_file
     /\ ~Written

\* C2, reached: the site answered 404 for the listing page, run returned False
\* and the file of an earlier run is still there.
C2_Witness ==
  /\ pc = "done"
  /\ web.kind = "http" /\ web.status = 404
  /\ result = "False"
  /\ start_file = OldFile /\ output_file = OldFile

\* the listing page was fetched and the discovery found no candidate
NoCandidates ==
  /\ pc \notin {"fetch_listing", "parse"}
  /\ html_content # None
  /\ unique_jobs = <<>>

\* C3: when the listing page is fetched and the discovery yields no candidate,
\* run returns False and the output file is neither written nor overwritten.
C3_NoCandidatesNoWrite ==
  NoCandidates =>
     /\ pc \in {"loop", "done"}
     /\ pc = "done" => result = "False"
     /\ output_file = start_file
     /\ ~Written
     /\ DfEmpty(df)

\* C3, reached: a listing page with links, none of them a candidate; run
\* returned False and the file of an earlier run is still there.
C3_Witness ==
  /\ pc = "done"
  /\ NoCandidates
  /\ Len(html_content.body) > 0
  /\ result = "False"
  /\ output_file = OldFile

\* C4: whichever job pages fail to load or to parse, the loop goes through
\* every candidate: parse_job_listings returns one record per candidate, in
\* discovery order.
C4_OneRecordPerCandidate ==
  /\ pc # "parsed"
  /\ pc \in {"loop", "extract"} => Len(job_listings) = i - 1
  /\ pc \in {"clean", "save", "done"} => Len(job_listings) = Len(unique_jobs)
  /\ \A k \in 1..Len(job_listings) :
       /\ job_listings[k].title = Strip(GetText(unique_jobs[k]))
       /\ job_listings[k].url = JobUrl(unique_jobs[k])

\* C4, reached: the page of the first of two candidates raised while it was
\* parsed, the page of the second gave no content, and both are recorded.
C4_Witness ==
  /\ pc = "clean"
  /\ Len(unique_jobs) = 2
  /\ Len(job_listings) = 2
  /\ job_listings[1].company = Str("Acme Ltd") /\ job_listings[1].description = Str("N/A")
  /\ job_listings[2].company = Str("N/A")
  /\ faults_left = 0

\* the site answers with a page, and handling it raises at a parsing step
RaisingPage(answer) ==
  /\ answer.kind = "http"
  /\ answer.status < 400
  /\ answer.text # EmptyText
  /\ answer.text.raise_at \in RaisingSteps

\* C5: whichever step of parsing a job page raises, extract_job_details
\* catches the exception and returns the all-default record.
C5_AnyExceptionGivesDefaults ==
  (pc = "returned" /\ RaisingPage(arg)) => ~ret.exc /\ ret.value = AllDefaults

\* the site gives no job page: no response, an error status, or no text
NoContentAnswer(answer) ==
  \/ answer.kind = "error"
  \/ answer.kind = "http" /\ (answer.status >= 400 \/ answer.text = EmptyText)

\* C6: when the fetch of a job page gives no content, extract_job_details
\* returns the default record and begins no field-extraction step.
C6_NoContentGivesDefaults ==
  (pc = "returned" /\ NoContentAnswer(arg)) =>
     /\ ~ret.exc
     /\ ret.value = AllDefaults
     /\ ret.steps = <<>>

\* C6, reached: the site answered with an empty text and the default record
\* came back.
C6_Witness ==
  /\ pc = "returned"
  /\ arg = HttpAnswer(200, EmptyText)
  /\ ret.value = AllDefaults
  /\ ret.steps = <<>>

\* the links of the listing page, as find_all gives them
PageLinks == FindAllAnchors(web.text.body)

\* C7 as the specification states it: whenever two links of the listing page
\* carry the same title and resolve to different URLs, the table the run
\* wrote has exactly one row for the title, with the URL of the first of them.
C7_OneRowPerLinkTitle ==
  (pc = "done" /\ result = "True") =>
     LET links == PageLinks
         titled == {<<k, Strip(GetText(links[k])), JobUrl(links[k])>> : k \in 1..Len(links)}
     IN \A a \in titled, b \in titled :
          (a[1] < b[1] /\ a[2] = b[2] /\ a[3] # b[3]
             /\ \A c \in titled : c[2] = a[2] => a[1] <= c[1])
          => \E k \in RowsTitled(a[2]) : RowsTitled(a[2]) = {k} /\ output_file.lines[k][2] = a[3]

\* C7, amended: of the links the discovery takes up, each of the first 10
\* distinct titles has exactly one row in the table the run wrote, with the
\* URL of the first such link that carries it; a later title has no row.
C7_OneRowPerCandidateTitle ==
  (pc = "done" /\ result = "True") =>
     LET links == PageLinks
         taken == {<<k, Strip(GetText(links[k])), JobUrl(links[k])>> :
                     k \in {n \in 1..Len(links) : Accepted(links[n])}}
         first == {a \in taken : \A c \in taken : c[2] = a[2] => a[1] <= c[1]}
     IN \A a \in first :
          IF Cardinality({c \in first : c[1] <= a[1]}) <= 10
          THEN \E k \in RowsTitled(a[2]) :
                 RowsTitled(a[2]) = {k} /\ output_file.lines[k][2] = a[3]
          ELSE RowsTitled(a[2]) = {}

\* C7, reached: the page carried Job A twice among its first 10 titles, under
\* two URLs, and the table has one row for it, with the first URL.
C7_Witness ==
  /\ pc = "done"
  /\ result = "True"
  /\ \E j \in 1..Len(web.text.body), k \in 1..Len(web.text.body) :
       /\ j < k
       /\ web.text.body[j] = Anchor(Str("Job A"), Str("/jobs/a"))
       /\ web.text.body[k] = Anchor(<<8195>> \o Str("\fJob A\n"), Str("/jobs/a2"))
  /\ \E k \in RowsTitled(Str("Job A")) :
       /\ RowsTitled(Str("Job A")) = {k}
       /\ output_file.lines[k][2] = Str("https://vacancymail.co.zw/jobs/jobs/a")

\* C8: the requests of a run come one after the other: the listing page, then
\* at most 10 job pages in discovery order, each parsed before the next is
\* requested, and to_csv only once the last of them is parsed.
C8_StrictlySequential ==
  LET n == Len(events)
  IN /\ n <= 2 * 10 + 2
     /\ pc = "extract" => n % 2 = 0 /\ events[n][1] = "request"
     /\ \A k \in 1..n :
          IF k = 1 THEN events[k] = <<"request", base_url>>
          ELSE IF events[k][1] = "write" THEN k = n /\ k = 2 * Len(unique_jobs) + 2
          ELSE /\ k \div 2 <= Len(unique_jobs)
               /\ events[k] = <<(IF k % 2 = 0 THEN "request" ELSE "extracted"),
                                JobUrl(unique_jobs[k \div 2])>>

\* C8, reached: a page with more than 10 candidates; 10 job pages were
\* requested and parsed in turn, and then the file was written.
C8_Witness ==
  /\ pc = "done"
  /\ result = "True"
  /\ Len(events) = 22
  /\ events[22] = <<"write", "csv">>
  /\ events[20] = <<"request", Str("https://vacancymail.co.zw/jobs/jobs/v10")>>
  /\ Len(web.text.body) > 10

\* the site answers with a page that has a description element, and the
\* description step runs to its end
DescriptionRead(answer) ==
  /\ answer.kind = "http"
  /\ answer.status < 400
  /\ answer.text # EmptyText
  /\ answer.text.raise_at \notin {"soup", "company", "description"}
  /\ \E k \in 1..Len(answer.text.body) :
       HasClassJobDescription(answer.text.body[k]) \/ HasClassContent(answer.text.body[k])

\* the text of the description element of a page
DescriptionText(answer) ==
  LET first == Find(answer.text.body, HasClassJobDescription)
  IN GetTextStripped(IF first # None THEN first ELSE Find(answer.text.body, HasClassContent))

\* C9: the description extract_job_details returns is never longer than 300
\* characters: a text of at most 300 comes back as it is, a longer one as its
\* first 297 characters and "...".
C9_DescriptionAtMost300 ==
  pc = "returned" =>
     /\ Len(ret.value.description) <= 300
     /\ DescriptionRead(arg) =>
          LET text == DescriptionText(arg)
          IN IF Len(text) <= 300 THEN ret.value.description = text
             ELSE /\ ret.value.description = SubSeq(text, 1, 297) \o Str("...")
                  /\ Len(ret.value.description) = 300

\* C9, reached: a description of 350 characters came back as 300, the last
\* three of them dots.
C9_Witness ==
  /\ pc = "returned"
  /\ DescriptionRead(arg)
  /\ Len(DescriptionText(arg)) = 350
  /\ Len(ret.value.description) = 300
  /\ SubSeq(ret.value.description, 298, 300) = Str("...")

\* C10: clean_data applied to the rows it returned gives as many rows, the
\* same seven columns in the same order, and the same values in all of them
\* but scraped_at.
C10_CleanDataIdempotent ==
  pc = "cleaned_again" =>
     /\ Len(ret[2].rows) = Len(ret[1].rows)
     /\ ret[2].columns = ret[1].columns
     /\ arg.job_listings # <<>> =>
          ret[2].columns =
            <<"title", "url", "company", "location", "expiry_date", "description", "scraped_at">>
     /\ \A k \in 1..Len(ret[1].rows) :
          \A col \in {"title", "url", "company", "location", "expiry_date", "description"} :
             ret[2].rows[k][col] = ret[1].rows[k][col]

\* C10, reached: two jobs with one title and a date to rewrite were cleaned
\* to one row, and cleaning that row again at a later time changed scraped_at
\* alone.
C10_Witness ==
  /\ pc = "cleaned_again"
  /\ Len(arg.job_listings) = 2
  /\ arg.job_listings[1].expiry_date = Str("1/2/2024")
  /\ Len(ret[1].rows) = 1
  /\ ret[1].rows[1]["expiry_date"] = Str("2024-02-01")
  /\ ret[2].rows[1]["expiry_date"] = Str("2024-02-01")
  /\ ret[2].rows[1]["scraped_at"] # ret[1].rows[1]["scraped_at"]

====
